---- MODULE Spec2Model ----
(***************************************************************************)
(* AenClient (src/manager.py): a cookie-session HTTP client.  The model    *)
(* holds the client's transport state (cookie jar, session.auth), the      *)
(* calls in flight of each calling thread, and the server the client talks *)
(* to (its sessions and one transaction flag per session).                 *)
(***************************************************************************)
EXTENDS Integers, Sequences, FiniteSets, TLC

VARIABLES
    username,     \* self.username      (instance default)
    password,     \* self.password      (instance default)
    service_id,   \* self.service_id    (instance default)
    cookies,      \* self.session.cookies: the set of session tokens in the jar
    sessionAuth,  \* self.session.auth: <<>> is None, <<u, p>> is HTTPBasicAuth(u, p)
    pc,           \* per thread: "idle", "sent" (request on the wire), "answered"
    req,          \* per thread: the request of the call in flight
    resp,         \* per thread: the response the transport returned
    srvSess,      \* server: per token "free", "live" or "dead"
    srvTx,        \* server: per token the transaction flag, "Idle" or "Open"
    srvLastTx,    \* server: per token the last transaction change it performed
    last,         \* the call that has just completed, in full (until the next call)
    done          \* the latest completed login or logout, and whether it returned

vars == <<username, password, service_id, cookies, sessionAuth, pc, req, resp,
          srvSess, srvTx, srvLastTx, last, done>>

-----------------------------------------------------------------------------
(* Bounds *)

MaxSessions == 2

(* Python values: None, and the truthiness `or` / `and` / `not` test. *)
NoneVal == "<None>"

Truthy(v) == v # NoneVal /\ v # ""

PyOr(a, b) == IF Truthy(a) THEN a ELSE b

Threads == {"t1", "t2"}
Tokens == 1..MaxSessions

(* The credentials the server accepts. *)
ValidUser == "alice"
ValidPwd == "pw"

UserArgs == {NoneVal, "", "bob"}
PwdArgs == {NoneVal, "", "bad"}
SidArgs == {NoneVal, "", "svc2"}

-----------------------------------------------------------------------------
(* Response bodies.  A body is its raw text together with what resp.json() *)
(* makes of it: kind "object" (a dict, with its fields), "array" or        *)
(* "scalar" (parsed, not a dict), "text" (json() raises), "empty".         *)
(* A JSON value is <<type, literal>>.                                      *)

JNone == <<"none", "None">>

JStr(s) == <<"str", s>>

Body(kind, raw, fields) == [kind |-> kind, raw |-> raw, fields |-> fields]

EmptyBody == Body("empty", "", <<>>)

Bodies ==
    { EmptyBody,
      Body("text", "<html>oops</html>", <<>>),
      Body("object", "{\"message\": \"x\"}", [message |-> JStr("x")]),
      Body("object", "{\"error\": \"y\"}", [error |-> JStr("y")]),
      Body("object", "{\"code\": 7}", [code |-> <<"num", "7">>]),
      Body("array", "[1]", <<>>),
      Body("object", "{\"message\": \"x\", \"error\": \"y\", \"detail\": \"z\"}",
           [message |-> JStr("x"), error |-> JStr("y"), detail |-> JStr("z")]),
      Body("object", "{\"message\": \"\", \"error\": \"y\"}",
           [message |-> JStr(""), error |-> JStr("y")]),
      Body("object", "{\"error\": null, \"detail\": 7}",
           [error |-> <<"null", "null">>, detail |-> <<"num", "7">>]) }

(* Python truthiness of a JSON value *)
JTruthy(v) ==
    CASE v[1] = "str" -> v[2] # ""
      [] v[1] = "num" -> v[2] # "0"
      [] v[1] = "bool" -> v[2] = "true"
      [] OTHER -> FALSE

JOr(a, b) == IF JTruthy(a) THEN a ELSE b

(* dict.get(key): the value, or None *)
DictGet(fields, key) == IF key \in DOMAIN fields THEN fields[key] ELSE JNone

(* resp.text or None *)
TextOrNone(body) == JOr(JStr(body.raw), JNone)

(* the fields read in the order error, message, detail *)
ExtractErrorMessageErrorFirst(body) ==
    IF body.kind = "object"
    THEN JOr(JOr(DictGet(body.fields, "error"), DictGet(body.fields, "message")),
             DictGet(body.fields, "detail"))
    ELSE TextOrNone(body)

ExtractErrorMessage(body) ==
    IF body.kind = "object"
    THEN JOr(JOr(DictGet(body.fields, "message"), DictGet(body.fields, "error")),
             DictGet(body.fields, "detail"))
    ELSE TextOrNone(body)

-----------------------------------------------------------------------------
(* Outcomes of a call: kind "ok" carries the returned value; an error kind *)
(* carries the message (http is <<status>> when the message starts with    *)
(* "HTTP <status>: ", else <<>>); classified says _raise_api_error ran.    *)

Outcome(kind, value, http, msg, classified) ==
    [kind |-> kind, value |-> value, http |-> http, msg |-> msg,
     classified |-> classified]

Returned(value) == Outcome("ok", value, <<>>, JNone, FALSE)

Raised(kind, msg) == Outcome(kind, JNone, <<>>, msg, FALSE)

(* ErrorKind with 405 left out of the validation statuses *)
ErrorKindNo405(status) ==
    CASE status \in {401, 403} -> "PermissionDenied"
      [] status = 404 -> "NotFoundError"
      [] status = 409 -> "ConflictError"
      [] status = 400 -> "ValidationError"
      [] status >= 500 -> "ServerError"
      [] OTHER -> "AenClientError"

ErrorKind(status) ==
    CASE status \in {401, 403} -> "PermissionDenied"
      [] status = 404 -> "NotFoundError"
      [] status = 409 -> "ConflictError"
      [] status \in {400, 405} -> "ValidationError"
      [] status >= 500 -> "ServerError"
      [] OTHER -> "AenClientError"

DefaultPhrase(kind) ==
    CASE kind = "PermissionDenied" -> JStr("Permission denied / authentication required")
      [] kind = "NotFoundError" -> JStr("Resource not found")
      [] kind = "ConflictError" -> JStr("Conflict")
      [] kind = "ValidationError" -> JStr("Validation error")
      [] kind = "ServerError" -> JStr("Server error")
      [] OTHER -> JStr("Unexpected error")

RaiseApiError(status, body) ==
    LET kind == ErrorKind(status)
        msg == JOr(ExtractErrorMessage(body), DefaultPhrase(kind))
    IN  Outcome(kind, JNone, IF kind = "AenClientError" THEN <<status>> ELSE <<>>,
                msg, TRUE)

IsSuccess2xx(status) == 200 <= status /\ status < 300

JsonOrError(status, body) ==
    IF IsSuccess2xx(status)
    THEN IF body.kind = "empty" THEN Returned(JNone)
         ELSE IF body.kind \in {"object", "array", "scalar"}
              THEN Returned(<<"json", body.raw>>)
              ELSE Raised("JSONDecodeError", JNone)
    ELSE RaiseApiError(status, body)

TextOrError(status, body) ==
    IF IsSuccess2xx(status) THEN Returned(JStr(body.raw))
    ELSE RaiseApiError(status, body)

IsOk200(status) == status = 200

VoidOrError(status, body) ==
    IF IsOk200(status) THEN Returned(JNone) ELSE RaiseApiError(status, body)

IsAenClientError(kind) ==
    kind \in {"AenClientError", "AuthenticationError", "PermissionDenied",
              "NotFoundError", "ValidationError", "ConflictError",
              "TransactionError", "ServerError"}

ListFilesOutcome(status, body) ==
    LET inner == JsonOrError(status, body)
    IN  IF IsAenClientError(inner.kind)
        THEN IF status = 405
             THEN Outcome("ok", <<"list", "[]">>, <<>>, JNone, inner.classified)
             ELSE Outcome("ok", JNone, <<>>, JNone, inner.classified)
        ELSE inner

(* begin_transaction taking a 409 for success *)
BeginOutcomeIgnoresConflict(status, body) ==
    IF status = 409 THEN Returned(JNone) ELSE VoidOrError(status, body)

BeginOutcome(status, body) ==
    IF status = 409
    THEN Raised("ConflictError",
                JStr("A transaction is already open. Commit or rollback first."))
    ELSE VoidOrError(status, body)

(* commit_transaction without its 409 override *)
CommitOutcomePlain(status, body) == VoidOrError(status, body)

CommitOutcome(status, body) ==
    IF status = 409
    THEN Raised("TransactionError", JStr("No open transaction to commit."))
    ELSE VoidOrError(status, body)

(* rollback_transaction returning on a 409 *)
RollbackOutcomeSwallows(status, body) ==
    IF status = 409 THEN Returned(JNone) ELSE VoidOrError(status, body)

RollbackOutcome(status, body) ==
    IF status = 409
    THEN Raised("TransactionError", JStr("No open transaction to rollback."))
    ELSE VoidOrError(status, body)

TxOps == {"begin_transaction", "commit_transaction", "rollback_transaction"}
ResourceOps == {"get_object", "delete_object", "list_files", "get_locale",
                "set_locale"}

OpOutcome(op, status, body) ==
    CASE op = "begin_transaction" -> BeginOutcome(status, body)
      [] op = "commit_transaction" -> CommitOutcome(status, body)
      [] op = "rollback_transaction" -> RollbackOutcome(status, body)
      [] op = "get_object" -> JsonOrError(status, body)
      [] op = "list_files" -> ListFilesOutcome(status, body)
      [] op = "get_locale" -> TextOrError(status, body)
      [] OTHER -> VoidOrError(status, body)

ConnectivityFault == Outcome("ConnectivityFault", JNone, <<>>, JNone, FALSE)

-----------------------------------------------------------------------------
(* The transport: requests.Session.request.  A request carries the jar's   *)
(* cookies, and the per-request auth or else session.auth.                 *)

(* attempt counts the times the call has put this request on the wire.     *)

Request(op, auth, params) ==
    [op |-> op, cookie |-> cookies,
     auth |-> IF auth # <<>> THEN auth ELSE sessionAuth,
     params |-> params, attempt |-> 1, args |-> <<>>]

NoReq ==
    [op |-> "none", cookie |-> {}, auth |-> <<>>, params |-> {}, attempt |-> 0,
     args |-> <<>>]

(* A response, with what the server saw when it handled the request: was   *)
(* the session valid, the transaction flag before and after, and the last  *)
(* transaction change before it.                                           *)
Response(status, body, setCookie, valid, txBefore, txAfter, lastTx) ==
    [status |-> status, body |-> body, setCookie |-> setCookie, fault |-> FALSE,
     valid |-> valid, txBefore |-> txBefore, txAfter |-> txAfter,
     lastTx |-> lastTx]

NoResp == Response(0, EmptyBody, {}, FALSE, "Idle", "Idle", "none")

FaultResp == [NoResp EXCEPT !.fault = TRUE]

Short(op, out) == [op |-> op, ok |-> out.kind = "ok"]

Call(op, args, reqs, rq, rs, out, jarBefore, jarAfter, authAfter, prev) ==
    [op |-> op, args |-> args, reqs |-> reqs, req |-> rq, resp |-> rs, out |-> out,
     jarBefore |-> jarBefore, jarAfter |-> jarAfter, authAfter |-> authAfter,
     prev |-> prev]

NoCall ==
    Call("none", <<>>, 0, NoReq, NoResp, Returned(JNone), {}, {}, <<>>,
         Short("none", Returned(JNone)))

-----------------------------------------------------------------------------
Constructed ==
    /\ cookies = {}
    /\ sessionAuth = <<>>
    /\ pc = [t \in Threads |-> "idle"]
    /\ req = [t \in Threads |-> NoReq]
    /\ resp = [t \in Threads |-> NoResp]
    /\ srvSess = [k \in Tokens |-> "free"]
    /\ srvTx = [k \in Tokens |-> "Idle"]
    /\ srvLastTx = [k \in Tokens |-> "none"]
    /\ last = NoCall
    /\ done = NoCall.prev

(* AenClient(base_url, "alice", "pw") *)
Init ==
    /\ username = "alice"
    /\ password = "pw"
    /\ service_id = NoneVal
    /\ Constructed

(* AenClient(base_url, username, password, service_id), each optional *)
InitApi ==
    /\ username \in {NoneVal, "alice"}
    /\ password \in {NoneVal, "pw"}
    /\ service_id \in {NoneVal, "svc"}
    /\ Constructed

(* The client side of a step never touches the server. *)
ServerUnchanged == UNCHANGED <<srvSess, srvTx, srvLastTx>>

DefaultsUnchanged == UNCHANGED <<username, password, service_id>>

(* session.<method>(url, ...): the request goes on the wire and the thread *)
(* blocks until the transport answers.                                     *)
Send(t, rq) ==
    /\ pc[t] = "idle"
    /\ pc' = [pc EXCEPT ![t] = "sent"]
    /\ req' = [req EXCEPT ![t] = rq]
    /\ last' = NoCall
    /\ UNCHANGED <<resp, cookies, sessionAuth, done>>
    /\ ServerUnchanged
    /\ DefaultsUnchanged

(* The call of thread t ends with outcome out, leaving the jar and auth;   *)
(* it made as many transport requests as it put on the wire.               *)
Complete(t, op, args, out, jar, auth) ==
    /\ cookies' = jar
    /\ sessionAuth' = auth
    /\ last' = Call(op, args, req[t].attempt, req[t], resp[t], out,
                     cookies, jar, auth, done)
    /\ done' = IF op \in {"login", "logout"} THEN Short(op, out) ELSE done
    /\ pc' = [pc EXCEPT ![t] = "idle"]
    /\ req' = [req EXCEPT ![t] = NoReq]
    /\ resp' = [resp EXCEPT ![t] = NoResp]
    /\ ServerUnchanged
    /\ DefaultsUnchanged

(* requests stores the cookies a response sets before the call returns. *)
JarAfter(rs) == IF rs.setCookie # {} THEN rs.setCookie ELSE cookies

-----------------------------------------------------------------------------
(* login *)

(* the credentials test written with `or`: one of the two is enough to go on *)
CredentialsMissingBoth(user, pwd) == ~(Truthy(user) \/ Truthy(pwd))

CredentialsMissing(user, pwd) == ~(Truthy(user) /\ Truthy(pwd))

(* the service identifier resolved like the credentials, with `or` *)
ResolveSidOr(sid) == PyOr(sid, service_id)

ResolveSid(sid) == IF sid # NoneVal THEN sid ELSE service_id

LoginParams(sid) ==
    IF Truthy(ResolveSid(sid)) THEN {<<"service_id", ResolveSid(sid)>>} ELSE {}

(* the credentials kept on the session *)
AuthAfterLoginKept(user, pwd) == <<user, pwd>>

AuthAfterLogin(user, pwd) == <<>>

Login(t, u, p, sid) ==
    LET user == PyOr(u, username)
        pwd == PyOr(p, password)
    IN  /\ pc[t] = "idle"
        /\ IF CredentialsMissing(user, pwd)
           THEN Complete(t, "login", <<u, p, sid>>,
                         Raised("AuthenticationError",
                                JStr("username and password are required for login")),
                         cookies, sessionAuth)
           ELSE Send(t, [Request("login", <<user, pwd>>, LoginParams(sid))
                             EXCEPT !.args = <<u, p, sid>>])

LoginReturn(t) ==
    /\ pc[t] = "answered"
    /\ req[t].op = "login"
    /\ IF resp[t].fault
       THEN Complete(t, "login", req[t].args, ConnectivityFault, cookies,
                     sessionAuth)
       ELSE LET out == VoidOrError(resp[t].status, resp[t].body)
            IN  Complete(t, "login", req[t].args, out, JarAfter(resp[t]),
                         IF out.kind = "ok"
                         THEN AuthAfterLogin(req[t].auth[1], req[t].auth[2])
                         ELSE sessionAuth)

(* logout *)

(* the jar not cleared *)
JarAfterLogoutKept(jar) == jar

JarAfterLogout(jar) == {}

(* the jar cleared whatever the logout response was *)
LogoutJarAlways(out, jar) == JarAfterLogout(jar)

(* The status check raises before the jar is cleared. *)
LogoutJar(out, jar) == IF out.kind = "ok" THEN JarAfterLogout(jar) ELSE jar

Logout(t) == Send(t, Request("logout", <<>>, {}))

LogoutReturn(t) ==
    /\ pc[t] = "answered"
    /\ req[t].op = "logout"
    /\ IF resp[t].fault
       THEN Complete(t, "logout", <<>>, ConnectivityFault, cookies, sessionAuth)
       ELSE LET out == VoidOrError(resp[t].status, resp[t].body)
            IN  Complete(t, "logout", <<>>, out,
                         LogoutJar(out, JarAfter(resp[t])), sessionAuth)

(* begin_transaction, commit_transaction, rollback_transaction *)

BeginTransaction(t) == Send(t, Request("begin_transaction", <<>>, {}))

CommitTransaction(t) == Send(t, Request("commit_transaction", <<>>, {}))

RollbackTransaction(t) == Send(t, Request("rollback_transaction", <<>>, {}))

(* get_object, delete_object, list_files, get_locale, set_locale *)

ResourceCall(t, op) == Send(t, Request(op, <<>>, {}))

(* a call that sends its request again when the server fails *)
RetriesOnServerError(op, status) == status >= 500

(* The session is a plain requests.Session(): no retry adapter is mounted, *)
(* and no operation loops around its request.                              *)
Retries(op, status) == FALSE

Resend(t) ==
    /\ pc' = [pc EXCEPT ![t] = "sent"]
    /\ req' = [req EXCEPT ![t].attempt = @ + 1]
    /\ resp' = [resp EXCEPT ![t] = NoResp]
    /\ cookies' = JarAfter(resp[t])
    /\ UNCHANGED <<sessionAuth, last, done>>
    /\ ServerUnchanged
    /\ DefaultsUnchanged

(* The rest of every operation but login and logout: the status decides. *)
OpReturn(t) ==
    /\ pc[t] = "answered"
    /\ req[t].op \in TxOps \cup ResourceOps
    /\ IF resp[t].fault
       THEN Complete(t, req[t].op, <<>>, ConnectivityFault, cookies, sessionAuth)
       ELSE IF Retries(req[t].op, resp[t].status) /\ req[t].attempt < 2
            THEN Resend(t)
            ELSE Complete(t, req[t].op, <<>>,
                          OpOutcome(req[t].op, resp[t].status, resp[t].body),
                          JarAfter(resp[t]), sessionAuth)

-----------------------------------------------------------------------------
(* The transport fails (timeout, connection refused, response lost): the   *)
(* call gets no response, whether or not the server handled the request.  *)
Fault(t) ==
    /\ pc[t] \in {"sent", "answered"}
    /\ resp[t] # FaultResp
    /\ pc' = [pc EXCEPT ![t] = "answered"]
    /\ resp' = [resp EXCEPT ![t] = FaultResp]
    /\ UNCHANGED <<req, cookies, sessionAuth, last, done>>
    /\ ServerUnchanged
    /\ DefaultsUnchanged

Answer(t, rs) ==
    /\ pc' = [pc EXCEPT ![t] = "answered"]
    /\ resp' = [resp EXCEPT ![t] = rs]
    /\ UNCHANGED <<req, cookies, sessionAuth, last, done>>
    /\ DefaultsUnchanged

(* The server: sessions named by tokens, one transaction flag per session; *)
(* 401 without a live session, 409 on transaction misuse.                  *)
SessionValid(rq) == rq.cookie # {} /\ \A k \in rq.cookie : srvSess[k] = "live"

TokenOf(rq) == CHOOSE k \in rq.cookie : TRUE

FreeTokens == {k \in Tokens : srvSess[k] = "free"}

ServeLogin(t, b) ==
    /\ pc[t] = "sent"
    /\ req[t].op = "login"
    /\ IF req[t].auth = <<ValidUser, ValidPwd>>
       THEN /\ FreeTokens # {}
            /\ LET k == CHOOSE x \in FreeTokens : \A y \in FreeTokens : x <= y
               IN  /\ srvSess' = [srvSess EXCEPT ![k] = "live"]
                   /\ Answer(t, Response(200, EmptyBody, {k}, FALSE, "Idle", "Idle",
                                         "none"))
            /\ UNCHANGED <<srvTx, srvLastTx>>
       ELSE /\ Answer(t, Response(401, b, {}, FALSE, "Idle", "Idle", "none"))
            /\ ServerUnchanged

ServeUnauthenticated(t, b) ==
    /\ pc[t] = "sent"
    /\ req[t].op # "login"
    /\ ~SessionValid(req[t])
    /\ Answer(t, Response(401, b, {}, FALSE, "Idle", "Idle", "none"))
    /\ ServerUnchanged

ServeLogout(t) ==
    /\ pc[t] = "sent"
    /\ req[t].op = "logout"
    /\ SessionValid(req[t])
    /\ LET k == TokenOf(req[t])
       IN  /\ srvSess' = [srvSess EXCEPT ![k] = "dead"]
           /\ srvTx' = [srvTx EXCEPT ![k] = "Idle"]
           /\ srvLastTx' = [srvLastTx EXCEPT ![k] = "none"]
           /\ Answer(t, Response(200, EmptyBody, {}, TRUE, srvTx[k], "Idle",
                                 srvLastTx[k]))

ServeTx(t) ==
    /\ pc[t] = "sent"
    /\ req[t].op \in TxOps
    /\ SessionValid(req[t])
    /\ LET k == TokenOf(req[t])
           op == req[t].op
           legal == IF op = "begin_transaction" THEN srvTx[k] = "Idle"
                    ELSE srvTx[k] = "Open"
           after == IF ~legal THEN srvTx[k]
                    ELSE IF op = "begin_transaction" THEN "Open" ELSE "Idle"
       IN  /\ srvTx' = [srvTx EXCEPT ![k] = after]
           /\ srvLastTx' = [srvLastTx EXCEPT ![k] = IF legal THEN op ELSE @]
           /\ Answer(t, Response(IF legal THEN 200 ELSE 409, EmptyBody, {}, TRUE,
                                 srvTx[k], after, srvLastTx[k]))
           /\ UNCHANGED srvSess

ServeResource(t, st, b) ==
    /\ pc[t] = "sent"
    /\ req[t].op \in ResourceOps
    /\ SessionValid(req[t])
    /\ LET k == TokenOf(req[t])
       IN  Answer(t, Response(st, b, {}, TRUE, srvTx[k], srvTx[k], srvLastTx[k]))
    /\ ServerUnchanged

(* The server expires a session on its own. *)
Expire(k) ==
    /\ srvSess[k] = "live"
    /\ srvSess' = [srvSess EXCEPT ![k] = "dead"]
    /\ srvTx' = [srvTx EXCEPT ![k] = "Idle"]
    /\ srvLastTx' = [srvLastTx EXCEPT ![k] = "none"]
    /\ UNCHANGED <<pc, req, resp, cookies, sessionAuth, last, done>>
    /\ DefaultsUnchanged

(* A server of which nothing is known: any status, any body. *)
AnyServe(t, st, b) ==
    /\ pc[t] = "sent"
    /\ Answer(t, Response(st, b, IF req[t].op = "login" /\ st = 200 THEN {1} ELSE {},
                          FALSE, "Idle", "Idle", "none"))
    /\ ServerUnchanged

-----------------------------------------------------------------------------
StatusCodes == {100, 200, 201, 204, 299, 302, 400, 401, 403, 404, 405, 409, 418,
                500, 599}

ProtoStatuses == {200, 404}
ProtoBodies == {EmptyBody, Body("object", "{\"error\": \"y\"}", [error |-> JStr("y")])}

(* One caller, the session and transaction protocol against the server. *)
Next ==
    \/ \E p \in {NoneVal, "bad"} : Login("t1", NoneVal, p, NoneVal)
    \/ LoginReturn("t1")
    \/ Logout("t1")
    \/ LogoutReturn("t1")
    \/ BeginTransaction("t1")
    \/ CommitTransaction("t1")
    \/ RollbackTransaction("t1")
    \/ \E op \in ResourceOps : ResourceCall("t1", op)
    \/ OpReturn("t1")
    \/ Fault("t1")
    \/ \E b \in ProtoBodies : ServeLogin("t1", b)
    \/ \E b \in ProtoBodies : ServeUnauthenticated("t1", b)
    \/ ServeLogout("t1")
    \/ ServeTx("t1")
    \/ \E st \in ProtoStatuses, b \in ProtoBodies : ServeResource("t1", st, b)
    \/ \E k \in Tokens : Expire(k)

Spec == Init /\ [][Next]_vars

(* One caller against a server that may answer anything. *)
NextApi ==
    \/ \E u \in UserArgs, p \in PwdArgs, sid \in SidArgs : Login("t1", u, p, sid)
    \/ LoginReturn("t1")
    \/ Logout("t1")
    \/ LogoutReturn("t1")
    \/ BeginTransaction("t1")
    \/ CommitTransaction("t1")
    \/ RollbackTransaction("t1")
    \/ \E op \in ResourceOps : ResourceCall("t1", op)
    \/ OpReturn("t1")
    \/ Fault("t1")
    \/ \E st \in StatusCodes, b \in Bodies : AnyServe("t1", st, b)

SpecApi == InitApi /\ [][NextApi]_vars

(* Two threads share the client instance, and so the server-side session. *)
NextConc ==
    \E t \in Threads :
        \/ Login(t, NoneVal, NoneVal, NoneVal)
        \/ LoginReturn(t)
        \/ Logout(t)
        \/ LogoutReturn(t)
        \/ BeginTransaction(t)
        \/ CommitTransaction(t)
        \/ RollbackTransaction(t)
        \/ OpReturn(t)
        \/ Fault(t)
        \/ ServeLogin(t, EmptyBody)
        \/ ServeUnauthenticated(t, EmptyBody)
        \/ ServeLogout(t)
        \/ ServeTx(t)
        \/ \E k \in Tokens : Expire(k)

SpecConc == Init /\ [][NextConc]_vars

-----------------------------------------------------------------------------
(* Properties *)

Handled(call) == call.reqs = 1 /\ ~call.resp.fault

Misuse(call) ==
    /\ call.op \in TxOps
    /\ Handled(call)
    /\ call.resp.valid
    /\ IF call.op = "begin_transaction" THEN call.resp.txBefore = "Open"
       ELSE call.resp.txBefore = "Idle"

(* C1: against the server with one transaction flag per session, begin     *)
(* while Open raises ConflictError and commit or rollback while Idle raise *)
(* TransactionError; the failed call leaves the transaction flag, the      *)
(* cookie jar and session.auth as they were.                               *)
C1_MisuseIsReported ==
    Misuse(last) =>
        /\ last.out.kind = IF last.op = "begin_transaction" THEN "ConflictError"
                           ELSE "TransactionError"
        /\ last.resp.status = 409
        /\ last.resp.txAfter = last.resp.txBefore
        /\ last.jarAfter = last.jarBefore
        /\ last.authAfter = <<>>
        /\ sessionAuth = <<>>

C1_Witness ==
    /\ Misuse(last)
    /\ last.op = "commit_transaction"
    /\ last.out.kind = "TransactionError"

(* C2: a begin that returns found the flag Idle and left it Open; a commit *)
(* or rollback that returns found it Open and left it Idle; on a live      *)
(* session a commit right after a rollback raises TransactionError, and a  *)
(* begin on an Idle flag returns.                                          *)
C2_TransactionCycle ==
    /\ (last.op = "begin_transaction" /\ last.out.kind = "ok") =>
           /\ last.resp.valid
           /\ last.resp.txBefore = "Idle"
           /\ last.resp.txAfter = "Open"
    /\ (last.op \in {"commit_transaction", "rollback_transaction"}
        /\ last.out.kind = "ok") =>
           /\ last.resp.valid
           /\ last.resp.txBefore = "Open"
           /\ last.resp.txAfter = "Idle"
    /\ (last.op = "commit_transaction" /\ Handled(last) /\ last.resp.valid
        /\ last.resp.lastTx = "rollback_transaction") =>
           last.out.kind = "TransactionError"
    /\ (last.op = "begin_transaction" /\ Handled(last) /\ last.resp.valid
        /\ last.resp.txBefore = "Idle") =>
           last.out.kind = "ok"

C2_Witness ==
    /\ last.op = "commit_transaction"
    /\ Handled(last)
    /\ last.resp.valid
    /\ last.resp.lastTx = "rollback_transaction"
    /\ last.out.kind = "TransactionError"

(* C3: with two threads on one session, a begin returns only if the last   *)
(* transaction change of the session was a commit or a rollback (or there  *)
(* was none), and a begin that meets an Open flag raises ConflictError.    *)
C3_OneOpenTransaction ==
    /\ (last.op = "begin_transaction" /\ last.out.kind = "ok") =>
           /\ last.resp.txBefore = "Idle"
           /\ last.resp.lastTx \in {"none", "commit_transaction",
                                    "rollback_transaction"}
    /\ (last.op = "begin_transaction" /\ Handled(last) /\ last.resp.valid
        /\ last.resp.txBefore = "Open") =>
           last.out.kind = "ConflictError"

C3_Witness ==
    /\ last.op = "begin_transaction"
    /\ last.out.kind = "ConflictError"
    /\ \E t \in Threads :
           /\ pc[t] = "answered"
           /\ req[t].op = "begin_transaction"
           /\ req[t].cookie = last.req.cookie
           /\ resp[t].status = 200

NonEmpty(v) == v \notin {NoneVal, ""}

Unresolvable(call) ==
    /\ call.op = "login"
    /\ call.args # <<>>
    /\ \/ ~(NonEmpty(call.args[1]) \/ NonEmpty(username))
       \/ ~(NonEmpty(call.args[2]) \/ NonEmpty(password))

(* C4: login without a non-empty username or a non-empty password among    *)
(* its arguments and the instance defaults raises AuthenticationError,     *)
(* makes no transport request and leaves the cookies as they were; a login *)
(* that can resolve both makes a request.                                  *)
C4_LoginNeedsCredentials ==
    /\ Unresolvable(last) =>
           /\ last.out.kind = "AuthenticationError"
           /\ last.reqs = 0
           /\ last.jarAfter = last.jarBefore
    /\ \A t \in Threads :
           (pc[t] # "idle" /\ req[t].op = "login") =>
               /\ Len(req[t].auth) = 2
               /\ NonEmpty(req[t].auth[1])
               /\ NonEmpty(req[t].auth[2])

C4_Witness ==
    /\ Unresolvable(last)
    /\ last.args[1] = "bob"
    /\ password = NoneVal
    /\ last.out.kind = "AuthenticationError"

(* C5: session.auth never holds credentials; a request of any operation    *)
(* but login carries none, a login request carries them; every request     *)
(* carries what the jar holds, and from a login that returned until the    *)
(* next login or logout the jar holds a token.                             *)
C5_CredentialsOnlyOnLogin ==
    /\ sessionAuth = <<>>
    /\ \A t \in Threads :
           pc[t] # "idle" =>
               /\ (req[t].op # "login" => req[t].auth = <<>>)
               /\ (req[t].op = "login" => req[t].auth # <<>>)
               /\ req[t].cookie = cookies
    /\ done = [op |-> "login", ok |-> TRUE] => cookies # {}

C5_Witness ==
    /\ pc["t1"] = "sent"
    /\ req["t1"].op = "get_object"
    /\ done = [op |-> "login", ok |-> TRUE]
    /\ req["t1"].cookie = cookies
    /\ \E k \in Tokens : srvSess[k] = "dead"

(* C6: a logout that returns leaves the jar empty; a logout after a logout *)
(* that returned is sent to the server, raises the error of its 401, and   *)
(* leaves the jar empty.                                                   *)
C6_LogoutTwice ==
    /\ (last.op = "logout" /\ last.out.kind = "ok") => last.jarAfter = {}
    /\ (last.op = "logout" /\ last.prev = [op |-> "logout", ok |-> TRUE]) =>
           /\ last.reqs = 1
           /\ last.req.cookie = {}
           /\ last.jarAfter = {}
           /\ ~last.resp.fault =>
                  /\ last.resp.status = 401
                  /\ last.out.kind = "PermissionDenied"

C6_Witness ==
    /\ last.op = "logout"
    /\ last.prev = [op |-> "logout", ok |-> TRUE]
    /\ last.out.kind = "PermissionDenied"
    /\ cookies = {}

(* C7: every operation but login, called with no session token in the jar, *)
(* raises AuthenticationError without a transport request.                 *)
C7_FailsFastUnauthenticated ==
    (last.op \notin {"none", "login"} /\ last.jarBefore = {}
     /\ last.req.cookie = {}) =>
        /\ last.out.kind = "AuthenticationError"
        /\ last.reqs = 0

C8Kind(status) ==
    IF status \in {401, 403} THEN "PermissionDenied"
    ELSE IF status = 404 THEN "NotFoundError"
    ELSE IF status \in {400, 405} THEN "ValidationError"
    ELSE IF status = 409 THEN "ConflictError"
    ELSE IF status >= 500 THEN "ServerError"
    ELSE "AenClientError"

(* C8: whenever the classifier runs, the kind of its error is the one the  *)
(* table gives for the status, whatever the body, and the unclassified     *)
(* error's message holds the status; it runs on every status outside       *)
(* 200-299 that get_object and get_locale receive.  (list_files does not   *)
(* raise what the classifier gives: see C10.)                              *)
C8_ClassifierTable ==
    /\ (last.out.classified /\ last.op # "list_files") =>
           /\ last.out.kind = C8Kind(last.resp.status)
           /\ (last.out.kind = "AenClientError") <=>
                  (last.out.http = <<last.resp.status>>)
    /\ (last.op \in {"get_object", "get_locale"} /\ Handled(last)
        /\ ~(last.resp.status \in 200..299)) =>
           last.out.classified

C8_Witness ==
    /\ last.op = "get_object"
    /\ last.resp.status = 302
    /\ last.out.kind = "AenClientError"
    /\ last.out.http = <<302>>

(* C9: a response with a status in 200-299 raises no domain error and      *)
(* does not reach the classifier, whatever the operation.                  *)
C9_No2xxError ==
    (last.op # "none" /\ Handled(last) /\ last.resp.status \in 200..299) =>
        /\ ~last.out.classified
        /\ ~IsAenClientError(last.out.kind)

(* C10: an operation whose response reports a failure raises a domain      *)
(* error: it does not return.                                              *)
C10_FailureIsRaised ==
    (last.op # "none" /\ Handled(last) /\ last.resp.status >= 400) =>
        IsAenClientError(last.out.kind)

C11Kind(op, status) ==
    IF status = 200 THEN "ok"
    ELSE IF status = 409
         THEN IF op = "begin_transaction" THEN "ConflictError" ELSE "TransactionError"
         ELSE C8Kind(status)

(* C11: a call of begin_transaction, commit_transaction or                 *)
(* rollback_transaction puts exactly one request on the wire, whatever     *)
(* was called before, and its outcome is the one the status of that one    *)
(* response gives (a connectivity fault if there is none); a thread that   *)
(* is not in a call can always start any of the three.                     *)
C11_OneRequestPerTxCall ==
    /\ last.op \in TxOps =>
           /\ last.reqs = 1
           /\ last.req.attempt = 1
           /\ last.resp.fault => last.out.kind = "ConnectivityFault"
           /\ ~last.resp.fault =>
                  last.out.kind = C11Kind(last.op, last.resp.status)
    /\ \A t \in Threads :
           (pc[t] # "idle" /\ req[t].op \in TxOps) => req[t].attempt = 1
    /\ pc["t1"] = "idle" =>
           /\ ENABLED BeginTransaction("t1")
           /\ ENABLED CommitTransaction("t1")
           /\ ENABLED RollbackTransaction("t1")

C11_Witness ==
    /\ last.op = "commit_transaction"
    /\ last.resp.status = 500
    /\ last.out.kind = "ServerError"
    /\ last.reqs = 1
    /\ last.prev.op = "login"

MessageKeys == {"message", "error", "detail"}

(* The message of the error the classifier raised, without its default. *)
Classified(call) == call.out.classified /\ call.op # "list_files"

(* C12: when the body is an object without any of the fields "message",    *)
(* "error", "detail", or does not parse, the error carries the raw text    *)
(* of the body, and the default phrase of its kind only when that text is  *)
(* empty.                                                                  *)
C12_FallsBackToRawText ==
    (/\ Classified(last)
     /\ \/ last.resp.body.kind \in {"text", "empty"}
        \/ /\ last.resp.body.kind = "object"
           /\ DOMAIN last.resp.body.fields \cap MessageKeys = {}) =>
        last.out.msg = IF last.resp.body.raw # "" THEN JStr(last.resp.body.raw)
                       ELSE DefaultPhrase(last.out.kind)

Falsy(v) ==
    v \in {JNone, JStr(""), <<"num", "0">>, <<"null", "null">>, <<"bool", "false">>}

Given(fields, key) == key \in DOMAIN fields /\ ~Falsy(fields[key])

(* C13, as claimed: "error" is used only when the body has no "message"    *)
(* key, "detail" only when it has neither a "message" nor an "error" key.  *)
C13_LaterFieldOnlyWithoutEarlierKey ==
    (Classified(last) /\ last.resp.body.kind = "object") =>
        LET f == last.resp.body.fields
        IN  /\ ("error" \in DOMAIN f /\ last.out.msg = f["error"]) =>
                   "message" \notin DOMAIN f
            /\ ("detail" \in DOMAIN f /\ last.out.msg = f["detail"]) =>
                   DOMAIN f \cap {"message", "error"} = {}

(* C13, amended: the message is the first of "message", "error", "detail"  *)
(* whose value is not falsy (a later field is used when every earlier one  *)
(* is missing or falsy), and the default phrase of the kind when there is  *)
(* none; whatever the body, the classification gives the kind of the       *)
(* status.                                                                 *)
C13_FirstTruthyField ==
    /\ (Classified(last) /\ last.resp.body.kind = "object") =>
           LET f == last.resp.body.fields
           IN  last.out.msg =
                   IF Given(f, "message") THEN f["message"]
                   ELSE IF Given(f, "error") THEN f["error"]
                   ELSE IF Given(f, "detail") THEN f["detail"]
                   ELSE DefaultPhrase(last.out.kind)
    /\ Classified(last) => last.out.kind = C8Kind(last.resp.status)
    /\ (last.op \in {"get_object", "get_locale"} /\ Handled(last)
        /\ ~(last.resp.status \in 200..299)) =>
           Classified(last)

C13_Witness ==
    /\ Classified(last)
    /\ last.resp.body.kind = "object"
    /\ "message" \in DOMAIN last.resp.body.fields
    /\ last.out.msg = JStr("y")

(* C14: an operation whose request carries the token of a session the      *)
(* server has expired raises PermissionDenied.                             *)
C14_ExpiryIsReported ==
    (/\ last.op \notin {"none", "login"}
     /\ Handled(last)
     /\ last.req.cookie # {}
     /\ ~last.resp.valid
     /\ last.resp.status = 401) =>
        last.out.kind = "PermissionDenied"

(* what login resolves when an argument that is given always wins *)
Override(arg, default) == IF arg # NoneVal THEN arg ELSE default

(* what login resolves when only a non-empty argument wins *)
OrDefault(arg, default) == IF NonEmpty(arg) THEN arg ELSE default

(* the one login request for the resolved credentials and identifier *)
LoginRequestFor(rq, user, pwd, sid) ==
    /\ rq.attempt = 1
    /\ rq.auth = <<user, pwd>>
    /\ rq.params = IF NonEmpty(sid) THEN {<<"service_id", sid>>} ELSE {}

LoginRaisesClassified(call) ==
    (call.op = "login" /\ Handled(call)) =>
        /\ ~(call.resp.status \in 200..299) =>
               /\ call.out.classified
               /\ call.out.kind = C8Kind(call.resp.status)
        /\ call.resp.status = 200 => call.out.kind = "ok"

(* C15 as stated: every login that goes to the server sends one request    *)
(* whose credentials and service identifier are the argument whenever an   *)
(* argument is given and the instance default otherwise, with the          *)
(* service_id parameter exactly when the identifier is non-empty; on a     *)
(* status outside 200-299 it raises the classifier's error.                *)
C15_ArgumentAlwaysOverrides ==
    /\ \A t \in Threads :
           (pc[t] # "idle" /\ req[t].op = "login") =>
               LoginRequestFor(req[t],
                               Override(req[t].args[1], username),
                               Override(req[t].args[2], password),
                               Override(req[t].args[3], service_id))
    /\ (last.op = "login" /\ last.reqs >= 1) =>
           /\ last.reqs = 1
           /\ LoginRequestFor(last.req,
                              Override(last.args[1], username),
                              Override(last.args[2], password),
                              Override(last.args[3], service_id))
    /\ LoginRaisesClassified(last)

(* C15: every login that goes to the server sends one request; its user    *)
(* name and password are the argument when that is non-empty and the       *)
(* instance default otherwise, its service identifier is the argument when *)
(* that is not None (the empty string included) and the default otherwise, *)
(* and it carries the service_id parameter exactly when the identifier is  *)
(* non-empty; on a status outside 200-299 it raises the classifier's       *)
(* error, on 200 it returns.                                               *)
C15_LoginResolution ==
    /\ \A t \in Threads :
           (pc[t] # "idle" /\ req[t].op = "login") =>
               LoginRequestFor(req[t],
                               OrDefault(req[t].args[1], username),
                               OrDefault(req[t].args[2], password),
                               Override(req[t].args[3], service_id))
    /\ (last.op = "login" /\ last.reqs >= 1) =>
           /\ last.reqs = 1
           /\ LoginRequestFor(last.req,
                              OrDefault(last.args[1], username),
                              OrDefault(last.args[2], password),
                              Override(last.args[3], service_id))
    /\ LoginRaisesClassified(last)

C15_Witness ==
    /\ last.op = "login"
    /\ Handled(last)
    /\ username = "alice"
    /\ service_id = "svc"
    /\ last.args = <<"", "bad", "">>
    /\ last.req.auth = <<"alice", "bad">>
    /\ last.req.params = {}
    /\ last.resp.status = 401
    /\ last.out.kind = "PermissionDenied"

====
